---- MODULE Spec2Model ----
(***************************************************************************)
(* LMSTools: LMSServer (src/LMSTools/server.py), a JSON-RPC client for a   *)
(* Logitech Media Server.  One LMSServer object is modelled together with  *)
(* the HTTP endpoint it posts to.  Python strings are sequences of         *)
(* one-character strings, None is <<>> and Some(x) is <<x>>.               *)
(***************************************************************************)
EXTENDS Integers, Sequences, FiniteSets, TLC

VARIABLES
    id,         \* self.id
    _version,   \* self._version: <<>> is None, <<s>> is the string s
    players,    \* self.players (the attribute is created by get_players)
    wire,       \* every requests.post attempted so far, in order: the id
                \* it carried and how the endpoint took it
    last        \* the public call that ran last and how it ended

vars == <<id, _version, players, wire, last>>

----------------------------------------------------------------------------
(* Bounds *)

\* requests.post calls one behaviour may make
MaxPosts == 2
\* largest _count the server reports
MaxCount == 2

----------------------------------------------------------------------------
(* Python strings *)

Whitespace == {" "}

S_dash == <<"-">>
S_ping == <<"p", "i", "n", "g">>
S_sync == <<"s", "y", "n", "c">>
S_rescan == <<"r", "e", "s", "c", "a", "n">>
S_wipecache == <<"w", "i", "p", "e", "c", "a", "c", "h", "e">>
S_playlists == <<"p", "l", "a", "y", "l", "i", "s", "t", "s">>
S_rescan_playlists == S_rescan \o <<" ">> \o S_playlists
S_rescan_q == S_rescan \o <<" ", "?">>
S_rescanprogress == S_rescan \o <<"p", "r", "o", "g", "r", "e", "s", "s">>
S_player_count_q ==
    <<"p", "l", "a", "y", "e", "r", " ", "c", "o", "u", "n", "t", " ", "?">>
S_syncgroups_q ==
    <<"s", "y", "n", "c", "g", "r", "o", "u", "p", "s", " ", "?">>
S_version_q == <<"v", "e", "r", "s", "i", "o", "n", " ", "?">>
S_fast == <<"f", "a", "s", "t">>
S_full == <<"f", "u", "l", "l">>
S_empty == <<>>

\* str.split(): split on runs of whitespace, no empty tokens
RECURSIVE SplitWSFrom(_, _, _)
SplitWSFrom(s, cur, acc) ==
    IF s = <<>>
    THEN IF cur = <<>> THEN acc ELSE Append(acc, cur)
    ELSE IF Head(s) \in Whitespace
         THEN SplitWSFrom(Tail(s), <<>>,
                          IF cur = <<>> THEN acc ELSE Append(acc, cur))
         ELSE SplitWSFrom(Tail(s), Append(cur, Head(s)), acc)

split(s) ==
    SplitWSFrom(s, <<>>, <<>>)

\* str.split(sep): split at every sep, empty tokens kept, "" gives [""]
RECURSIVE SplitSepFrom(_, _, _, _)
SplitSepFrom(s, sep, cur, acc) ==
    IF s = <<>>
    THEN Append(acc, cur)
    ELSE IF Head(s) = sep
         THEN SplitSepFrom(Tail(s), sep, <<>>, Append(acc, cur))
         ELSE SplitSepFrom(Tail(s), sep, Append(cur, Head(s)), acc)

split_on(s, sep) ==
    SplitSepFrom(s, sep, <<>>, <<>>)

\* a command argument: a str, or a list of tokens
StrCmd(s) == [kind |-> "str", chars |-> s, toks |-> <<>>]
ListCmd(t) == [kind |-> "list", chars |-> <<>>, toks |-> t]

----------------------------------------------------------------------------
(* JSON values and the HTTP endpoint *)

\* a JSON scalar: an integer or a string
JInt(n) == [t |-> "int", n |-> n, s |-> <<>>]
JStr(s) == [t |-> "str", n |-> 0, s |-> s]

\* bool(v)
bool(v) ==
    IF v.t = "int" THEN v.n # 0 ELSE Len(v.s) > 0

\* a JSON object as the value of "result": keys holds the keys present
EmptyResult ==
    [keys |-> {}, _count |-> 0, _rescan |-> JInt(0), _version |-> <<>>,
     syncgroups_loop |-> <<>>]

CountResult(n) == [EmptyResult EXCEPT !.keys = {"_count"}, !._count = n]
RescanResult(v) == [EmptyResult EXCEPT !.keys = {"_rescan"}, !._rescan = v]
VersionResult(s) == [EmptyResult EXCEPT !.keys = {"_version"}, !._version = s]
LoopResult(l) ==
    [EmptyResult EXCEPT !.keys = {"syncgroups_loop"}, !.syncgroups_loop = l]

\* an entry of syncgroups_loop; has says whether sync_members is present
Entry(has, s) == [has |-> has, sync_members |-> s]

Results ==
    {EmptyResult}
    \cup {CountResult(n) : n \in 0..MaxCount}
    \cup {RescanResult(v) : v \in {JInt(0), JInt(1), JStr(<<"0">>), JStr(<<>>)}}
    \cup {VersionResult(<<"7">>)}
    \cup {LoopResult(l) :
            l \in {<<>>,
                   <<Entry(TRUE, <<"A", ",", "B">>)>>,
                   <<Entry(FALSE, <<>>), Entry(TRUE, <<"B">>)>>}}

\* what the endpoint does with one POST
Refused == [net |-> "refused", status |-> 0, json |-> FALSE,
            hasResult |-> FALSE, result |-> EmptyResult]
Reply(status, json, hasResult, result) ==
    [net |-> "reply", status |-> status, json |-> json,
     hasResult |-> hasResult, result |-> result]

Responses ==
    {Refused}
    \cup {Reply(st, FALSE, FALSE, EmptyResult) : st \in {404, 500}}
    \cup {Reply(200, FALSE, FALSE, EmptyResult),
          Reply(200, TRUE, FALSE, EmptyResult)}
    \cup {Reply(200, TRUE, TRUE, res) : res \in Results}

----------------------------------------------------------------------------
(* What a call gives back *)

EmptyReport == [group_count |-> 0, player_count |-> 0, players |-> <<>>]

RNone ==
    [t |-> "None", b |-> FALSE, n |-> 0, s |-> <<>>, l |-> <<>>,
     g |-> <<>>, j |-> EmptyResult, v |-> JInt(0), rep |-> EmptyReport]
RBool(b) == [RNone EXCEPT !.t = "bool", !.b = b]
RInt(n) == [RNone EXCEPT !.t = "int", !.n = n]
RStr(s) == [RNone EXCEPT !.t = "str", !.s = s]
RPlayers(l) == [RNone EXCEPT !.t = "players", !.l = l]
RGroups(g) == [RNone EXCEPT !.t = "groups", !.g = g]
RJson(j) == [RNone EXCEPT !.t = "json", !.j = j]
RVal(v) == [RNone EXCEPT !.t = "value", !.v = v]
RReport(rep) == [RNone EXCEPT !.t = "report", !.rep = rep]

\* a call that returned ret, leaving the object as self
Return(self, ret, sent) ==
    [self |-> self, exc |-> "", ret |-> ret, sent |-> sent]
\* a call that raised exc, leaving the object as self
Raise(self, exc, sent) ==
    [self |-> self, exc |-> exc, ret |-> RNone, sent |-> sent]

----------------------------------------------------------------------------
(* LMSServer._request *)

\* command.split(), or the command itself when it has no split method
Tokens(command) ==
    IF command.kind = "str" THEN split(command.chars) ELSE command.toks

Payload(self, command, player) ==
    [id |-> self.id, method |-> "slim.request",
     params |-> <<player, Tokens(command)>>]

\* response.raise_for_status() raises HTTPError
RaisesForStatus(status) ==
    status >= 400 /\ status < 600

\* self.id += 1 whatever became of the post
IdAfterPostAlways(idv, resp) ==
    idv + 1

\* self.id += 1 placed before raise_for_status()
IdAfterPostReply(idv, resp) ==
    IF resp.net = "refused" THEN idv ELSE idv + 1

\* self.id after the post: the increment follows raise_for_status()
IdAfterPost(idv, resp) ==
    IF resp.net = "refused" \/ RaisesForStatus(resp.status)
    THEN idv
    ELSE idv + 1

\* the post as the wire sees it
Sent(self, command, player, resp) ==
    <<[payload |-> Payload(self, command, player),
       net |-> resp.net, status |-> resp.status,
       json |-> resp.json, hasResult |-> resp.hasResult,
       result |-> resp.result,
       parsed |-> ~(resp.net = "refused" \/ RaisesForStatus(resp.status))]>>

\* how the post ends for the caller
Outcome(after, resp, sent) ==
    IF resp.net = "refused"
    THEN Raise(after, "requests.ConnectionError", sent)
    ELSE IF RaisesForStatus(resp.status)
    THEN Raise(after, "requests.HTTPError", sent)
    ELSE IF ~resp.json
    THEN Raise(after, "ValueError", sent)
    ELSE IF ~resp.hasResult
    THEN Raise(after, "KeyError", sent)
    ELSE Return(after, RJson(resp.result), sent)

_request(self, command, player, resp) ==
    Outcome([self EXCEPT !.id = IdAfterPost(self.id, resp)], resp,
            Sent(self, command, player, resp))

\* binding of a call's arguments to _request(self, command, player="-")
NoKw == <<>>

BindOK(pos, kw) ==
    /\ Len(pos) <= 2
    /\ DOMAIN kw \subseteq {"command", "player"}
    /\ ~(Len(pos) >= 1 /\ "command" \in DOMAIN kw)
    /\ ~(Len(pos) >= 2 /\ "player" \in DOMAIN kw)
    /\ (Len(pos) >= 1 \/ "command" \in DOMAIN kw)

BoundCommand(pos, kw) ==
    IF Len(pos) >= 1 THEN pos[1] ELSE kw.command

BoundPlayer(pos, kw) ==
    IF Len(pos) >= 2 THEN pos[2]
    ELSE IF "player" \in DOMAIN kw THEN kw.player ELSE S_dash

\* self._request(*pos, **kw)
Call(self, pos, kw, resp) ==
    IF BindOK(pos, kw)
    THEN _request(self, BoundCommand(pos, kw), BoundPlayer(pos, kw), resp)
    ELSE Raise(self, "TypeError", <<>>)

\* key in d, for the object a call returned
HasKey(r, key) ==
    r.exc = "" /\ key \in r.ret.j.keys

ItemValue(j, key) ==
    CASE key = "_count" -> RInt(j._count)
      [] key = "_rescan" -> RVal(j._rescan)
      [] key = "_version" -> RStr(j._version)

\* r[key], where r is a call to _request: KeyError when the key is absent
GetItem(r, key) ==
    IF r.exc # "" THEN r
    ELSE IF ~HasKey(r, key) THEN Raise(r.self, "KeyError", r.sent)
    ELSE Return(r.self, ItemValue(r.ret.j, key), r.sent)

----------------------------------------------------------------------------
(* LMSPlayer.from_index *)

PlayerRefs == <<<<"A">>, <<"B">>, <<"C">>, <<"D">>>>
PlayerNames == <<<<"a">>, <<"b">>, <<"c">>, <<"d">>>>

\* the handle of the player the server lists at index i
from_index(i, self) ==
    [index |-> i, name |-> PlayerNames[i + 1], ref |-> PlayerRefs[i + 1]]

----------------------------------------------------------------------------
(* LMSServer's public methods.  Each takes the object and the endpoint's   *)
(* answers to the posts it may make, and gives the object afterwards, the  *)
(* posts made and the value returned or the exception raised.              *)

get_player_count(self, resp) ==
    GetItem(Call(self, <<StrCmd(S_player_count_q)>>, NoKw, resp), "_count")

\* get_players without self.players = []
KeepPlayers(prev) ==
    prev

\* self.players = []
ResetPlayers(prev) ==
    <<>>

\* for i in range(n): self.players.append(LMSPlayer.from_index(i, self))
RECURSIVE AppendPlayers(_, _, _, _)
AppendPlayers(list, i, n, self) ==
    IF i >= n THEN list
    ELSE AppendPlayers(Append(list, from_index(i, self)), i + 1, n, self)

\* return self.players
ReturnPlayers(r, list) ==
    Return([r.self EXCEPT !.players = list], RPlayers(list), r.sent)

\* get_players once get_player_count has run as r
FillPlayers(r) ==
    IF r.exc # "" THEN r
    ELSE ReturnPlayers(r, AppendPlayers(r.self.players, 0, r.ret.n, r.self))

get_players(self, resp) ==
    FillPlayers(get_player_count(
        [self EXCEPT !.players = ResetPlayers(self.players)], resp))

\* x.get("sync_members", "").split(",")
Members(x) ==
    split_on(IF x.has THEN x.sync_members ELSE S_empty, ",")

\* groups.get("syncgroups_loop", dict())
Loop(r) ==
    IF HasKey(r, "syncgroups_loop") THEN r.ret.j.syncgroups_loop ELSE <<>>

SplitAll(loop) ==
    [k \in 1..Len(loop) |-> Members(loop[k])]

\* get_sync_groups once the request has run as r
SplitGroups(r) ==
    IF r.exc # "" THEN r
    ELSE Return(r.self, RGroups(SplitAll(Loop(r))), r.sent)

get_sync_groups(self, resp) ==
    SplitGroups(Call(self, <<>>, [params |-> StrCmd(S_syncgroups_q)], resp))

\* player.ref in g
InGroup(ref, g) ==
    \E k \in 1..Len(g) : g[k] = ref

\* [i for i, g in enumerate(groups) if player.ref in g], as a set
IndexOf(ref, groups) ==
    {k \in 0..(Len(groups) - 1) : InGroup(ref, groups[k + 1])}

\* index[0] if index else -1
SyncIndex(index) ==
    IF index # {}
    THEN CHOOSE k \in index : \A m \in index : k <= m
    ELSE -1

Report(list, groups) ==
    [group_count |-> Len(groups),
     player_count |-> Len(list),
     players |-> [k \in 1..Len(list) |->
                    [name |-> list[k].name,
                     ref |-> list[k].ref,
                     sync_index |-> SyncIndex(IndexOf(list[k].ref, groups))]]]

\* show_players_sync_status once get_sync_groups has run as g
ShowAfterGroups(p, g) ==
    IF g.exc # "" THEN Raise(g.self, g.exc, p.sent \o g.sent)
    ELSE Return(g.self, RReport(Report(p.ret.l, g.ret.g)), p.sent \o g.sent)

\* show_players_sync_status once get_players has run as p
ShowAfterPlayers(p, resp2) ==
    IF p.exc # "" THEN p
    ELSE ShowAfterGroups(p, get_sync_groups(p.self, resp2))

show_players_sync_status(self, resp1, resp2) ==
    ShowAfterPlayers(get_players(self, resp1), resp2)

\* sync once the request has run as r: nothing is returned
SyncDone(r) ==
    IF r.exc # "" THEN r ELSE Return(r.self, RNone, r.sent)

sync(self, master, slave, resp) ==
    SyncDone(Call(self, <<>>,
                  [player |-> master, params |-> ListCmd(<<S_sync, slave>>)],
                  resp))

\* ping once the request has run as r
PingDone(r) ==
    IF r.exc = "" THEN Return(r.self, RBool(TRUE), r.sent)
    ELSE IF r.exc = "LMSConnectionError"
    THEN Return(r.self, RBool(FALSE), r.sent)
    ELSE r

ping(self, resp) ==
    PingDone(Call(self, <<>>, [params |-> StrCmd(S_ping)], resp))

\* self._version = ...["_version"]; return self._version
StoreVersion(r) ==
    IF r.exc # "" THEN r
    ELSE Return([r.self EXCEPT !._version = <<r.ret.s>>], r.ret, r.sent)

version(self, resp) ==
    IF self._version = <<>>
    THEN StoreVersion(GetItem(Call(self, <<>>,
                                   [params |-> StrCmd(S_version_q)], resp),
                              "_version"))
    ELSE Return(self, RStr(self._version[1]), <<>>)

\* is_scanning after the probe: True unless the probe gave a falsy _rescan
is_scanning(probe) ==
    IF probe.exc # "" THEN TRUE ELSE bool(probe.ret.v)

\* the command rescan sends for a mode, <<>> when no branch matches
ScanCommand(mode) ==
    IF mode = S_fast THEN <<S_rescan>>
    ELSE IF mode = S_full THEN <<S_wipecache>>
    ELSE IF mode = S_playlists THEN <<S_rescan_playlists>>
    ELSE <<>>

\* the posts of the probe come before those of r
After(probe, r) ==
    [r EXCEPT !.sent = probe.sent \o r.sent]

\* rescan once the probe has run
RescanAfterProbe(probe, command, resp2) ==
    IF ~is_scanning(probe)
    THEN IF command # <<>>
         THEN After(probe, Call(probe.self, <<>>,
                                [params |-> StrCmd(command[1])], resp2))
         ELSE Return(probe.self, RNone, probe.sent)
    ELSE Return(probe.self, RStr(S_empty), probe.sent)

rescan(self, mode, resp1, resp2) ==
    RescanAfterProbe(GetItem(Call(self, <<StrCmd(S_rescan_q)>>, NoKw, resp1),
                             "_rescan"),
                     ScanCommand(mode), resp2)

rescanprogress(self, resp) ==
    GetItem(Call(self, <<>>, [params |-> StrCmd(S_rescanprogress)], resp),
            "_rescan")

----------------------------------------------------------------------------
(* The state machine: one LMSServer object and its callers *)

Self == [id |-> id, _version |-> _version, players |-> players]

NoArgs == [mode |-> <<>>, master |-> <<>>, slave |-> <<>>,
           command |-> StrCmd(S_empty), player |-> <<>>]

\* the calls made straight to _request
DispatchCalls ==
    {[command |-> StrCmd(S_ping), player |-> S_dash],
     [command |-> StrCmd(<<" ">> \o S_rescan_playlists \o <<" ">>),
      player |-> S_dash],
     [command |-> ListCmd(<<S_sync, <<"B">>>>), player |-> <<"A">>]}

Modes == {S_fast, S_full, S_playlists, <<"x">>}
Refs == {<<"A">>, <<"B">>}

\* the answers the endpoint may give to the k-th post of a call that makes
\* r.sent posts: an answer is drawn only for a post that is made
Answering(k, r) ==
    IF Len(r.sent) >= k THEN Responses ELSE {Refused}

\* what the wire keeps of a post
Logged(sent) ==
    [k \in 1..Len(sent) |->
        [id |-> sent[k].payload.id, net |-> sent[k].net,
         status |-> sent[k].status]]

\* LMSServer(host, port)
Init ==
    /\ id = 1
    /\ _version = <<>>
    /\ players = <<>>
    /\ wire = <<>>
    /\ last = [op |-> "__init__", args |-> NoArgs, exc |-> "", ret |-> RNone,
               sent |-> <<>>,
               before |-> [id |-> 1, _version |-> <<>>, players |-> <<>>]]

\* the call op(args) ran as r
Do(op, args, r) ==
    /\ Len(wire) + Len(r.sent) <= MaxPosts
    /\ id' = r.self.id
    /\ _version' = r.self._version
    /\ players' = r.self.players
    /\ wire' = wire \o Logged(r.sent)
    /\ last' = [op |-> op, args |-> args, exc |-> r.exc, ret |-> r.ret,
                sent |-> r.sent, before |-> Self]

Dispatch ==
    \E c \in DispatchCalls, resp \in Responses :
        Do("_request", [NoArgs EXCEPT !.command = c.command,
                                      !.player = c.player],
           Call(Self, <<c.command, c.player>>, NoKw, resp))

GetPlayerCount ==
    \E resp \in Answering(1, get_player_count(Self, Refused)) :
        Do("get_player_count", NoArgs, get_player_count(Self, resp))

GetPlayers ==
    \E resp \in Answering(1, get_players(Self, Refused)) :
        Do("get_players", NoArgs, get_players(Self, resp))

GetSyncGroups ==
    \E resp \in Answering(1, get_sync_groups(Self, Refused)) :
        Do("get_sync_groups", NoArgs, get_sync_groups(Self, resp))

ShowPlayersSyncStatus ==
    \E resp1 \in Answering(1, show_players_sync_status(Self, Refused,
                                                       Refused)) :
        \E resp2 \in Answering(2, show_players_sync_status(Self, resp1,
                                                           Refused)) :
            Do("show_players_sync_status", NoArgs,
               show_players_sync_status(Self, resp1, resp2))

Sync ==
    \E master \in Refs, slave \in Refs :
        \E resp \in Answering(1, sync(Self, master, slave, Refused)) :
            Do("sync", [NoArgs EXCEPT !.master = master, !.slave = slave],
               sync(Self, master, slave, resp))

Ping ==
    \E resp \in Answering(1, ping(Self, Refused)) :
        Do("ping", NoArgs, ping(Self, resp))

Version ==
    \E resp \in Answering(1, version(Self, Refused)) :
        Do("version", NoArgs, version(Self, resp))

Rescan ==
    \E mode \in Modes :
        \E resp1 \in Answering(1, rescan(Self, mode, Refused, Refused)) :
            \E resp2 \in Answering(2, rescan(Self, mode, resp1, Refused)) :
                Do("rescan", [NoArgs EXCEPT !.mode = mode],
                   rescan(Self, mode, resp1, resp2))

RescanProgress ==
    \E resp \in Answering(1, rescanprogress(Self, Refused)) :
        Do("rescanprogress", NoArgs, rescanprogress(Self, resp))

Next ==
    \/ Dispatch
    \/ GetPlayerCount
    \/ GetPlayers
    \/ GetSyncGroups
    \/ ShowPlayersSyncStatus
    \/ Sync
    \/ Ping
    \/ Version
    \/ Rescan
    \/ RescanProgress

Spec == Init /\ [][Next]_vars

----------------------------------------------------------------------------
(* Properties *)

\* the endpoint answered the post with a success status
Accepted(e) ==
    e.net = "reply" /\ e.status \in 200..299

\* the endpoint answered the post normally: success status, JSON, a result
Normal(e) ==
    Accepted(e) /\ e.json /\ e.hasResult

NumAccepted(w) ==
    Cardinality({k \in 1..Len(w) : Accepted(w[k])})

\* the last call made exactly one post, of command toks to player
SentOnly(player, toks) ==
    /\ Len(last.sent) = 1
    /\ last.sent[1].payload =
           [id |-> last.before.id, method |-> "slim.request",
            params |-> <<player, toks>>]

C2_PingReportsReachability ==
    last.op = "ping" =>
        /\ SentOnly(S_dash, <<S_ping>>)
        /\ Normal(last.sent[1]) => last.exc = "" /\ last.ret = RBool(TRUE)
        /\ ~Accepted(last.sent[1]) =>
               last.exc = "" /\ last.ret = RBool(FALSE)

\* C3: a dispatch that fails because of the server (error status, a body
\* that is not JSON, no result key) raises LMSConnectionError, and the body
\* of an error status is not parsed
C3_ServerFailuresRaiseLMSConnectionError ==
    (last.op = "_request" /\ Len(last.sent) = 1
        /\ last.sent[1].net = "reply" /\ ~Normal(last.sent[1])) =>
        /\ last.exc = "LMSConnectionError"
        /\ ~Accepted(last.sent[1]) => ~last.sent[1].parsed

\* the probe of the last rescan reported that no scan is running
ProbeSaysIdle ==
    /\ Normal(last.sent[1])
    /\ "_rescan" \in last.sent[1].result.keys
    /\ ~bool(last.sent[1].result._rescan)

\* C4: rescan probes with "rescan ?"; when the probe succeeds with a falsy
\* _rescan it sends exactly one command ("rescan", "wipecache" or
\* "rescan playlists" by mode); otherwise it returns "" and sends none
C4_RescanSendsOneScanCommand ==
    last.op = "rescan" =>
        /\ Len(last.sent) >= 1
        /\ last.sent[1].payload.params = <<S_dash, <<S_rescan, <<"?">>>>>>
        /\ (ProbeSaysIdle /\ last.args.mode = S_fast) =>
               /\ Len(last.sent) = 2
               /\ last.sent[2].payload.params = <<S_dash, <<S_rescan>>>>
        /\ (ProbeSaysIdle /\ last.args.mode = S_full) =>
               /\ Len(last.sent) = 2
               /\ last.sent[2].payload.params = <<S_dash, <<S_wipecache>>>>
        /\ (ProbeSaysIdle /\ last.args.mode = S_playlists) =>
               /\ Len(last.sent) = 2
               /\ last.sent[2].payload.params =
                      <<S_dash, <<S_rescan, S_playlists>>>>
        /\ ~ProbeSaysIdle =>
               /\ Len(last.sent) = 1
               /\ last.exc = ""
               /\ last.ret = RStr(S_empty)

\* C5: the first read of version sends "version ?"; a read after one that
\* succeeded returns the cached string and sends nothing
C5_VersionIsFetchedOnce ==
    last.op = "version" =>
        IF last.before._version = <<>>
        THEN SentOnly(S_dash, split(S_version_q))
        ELSE /\ last.sent = <<>>
             /\ last.exc = ""
             /\ last.ret = RStr(last.before._version[1])

\* the groups C6 expects for a syncgroups_loop
ExpectedGroups(res) ==
    IF "syncgroups_loop" \in res.keys
    THEN [k \in 1..Len(res.syncgroups_loop) |->
            IF res.syncgroups_loop[k].has
            THEN split_on(res.syncgroups_loop[k].sync_members, ",")
            ELSE <<S_empty>>]
    ELSE <<>>

\* C6: get_sync_groups sends "syncgroups ?" to "-" and returns one group per
\* entry of syncgroups_loop, in order, each the entry's sync_members split
\* on ","
C6_SyncGroupsAreSplitMembers ==
    last.op = "get_sync_groups" =>
        /\ SentOnly(S_dash, split(S_syncgroups_q))
        /\ Normal(last.sent[1]) =>
               /\ last.exc = ""
               /\ last.ret = RGroups(ExpectedGroups(last.sent[1].result))

\* the server answered "player count ?" with a count
CountReported(e) ==
    Normal(e) /\ "_count" \in e.result.keys

\* C7: show_players_sync_status returns a report with the number of groups,
\* the number of players and, per player in order, the smallest index of a
\* group holding its reference, or -1
C7_ReportGivesFirstGroupIndex ==
    (last.op = "show_players_sync_status" /\ Len(last.sent) >= 1
        /\ CountReported(last.sent[1])) =>
        /\ Len(last.sent) = 2
        /\ Normal(last.sent[2]) =>
               /\ last.exc = ""
               /\ last.ret.t = "report"
               /\ last.ret.rep.group_count =
                      Len(ExpectedGroups(last.sent[2].result))
               /\ last.ret.rep.player_count = Len(players)
               /\ Len(last.ret.rep.players) = Len(players)
               /\ \A k \in 1..Len(players) :
                      /\ last.ret.rep.players[k].ref = players[k].ref
                      /\ last.ret.rep.players[k].sync_index =
                             SyncIndex(IndexOf(players[k].ref,
                                 ExpectedGroups(last.sent[2].result)))

\* C8: when the server reports _count = n, get_player_count returns n and
\* get_players returns, and leaves in self.players, exactly the n handles
\* the factory gives for the indices 0, 1, ..., n-1 in that order, whatever
\* the list held before
C8_PlayersAreRebuiltFromCount ==
    (Len(last.sent) = 1 /\ CountReported(last.sent[1])) =>
        LET n == last.sent[1].result._count
        IN  /\ last.op = "get_player_count" =>
                   last.exc = "" /\ last.ret = RInt(n)
            /\ last.op = "get_players" =>
                   /\ last.exc = ""
                   /\ Len(players) = n
                   /\ \A i \in 1..n :
                          /\ players[i] = from_index(i - 1, Self)
                          /\ players[i].index = i - 1
                   /\ last.ret = RPlayers(players)

\* get_players returned one handle on an object that held two
C8_Witness ==
    /\ last.op = "get_players"
    /\ CountReported(last.sent[1])
    /\ Len(last.before.players) = 2
    /\ Len(players) = 1
    /\ C8_PlayersAreRebuiltFromCount

\* C9: sync(master, slave) makes exactly one post, with payload {id: the
\* current request id, method: "slim.request", params: [master, ["sync",
\* slave]]}, and returns nothing
C9_SyncSendsOneCommand ==
    last.op = "sync" =>
        /\ SentOnly(last.args.master, <<S_sync, last.args.slave>>)
        /\ Normal(last.sent[1]) => last.exc = "" /\ last.ret = RNone

\* the step made posts and none of them got a success status
FailedStep ==
    /\ Len(wire') > Len(wire)
    /\ \A k \in (Len(wire) + 1)..Len(wire') : ~Accepted(wire'[k])

\* C10: the counter is always 1 plus the number of posts that got a success
\* status; it never decreases; a call whose post is refused or gets an error
\* status leaves the counter and the cached version as they were
C10_CounterCountsAcceptedPosts ==
    /\ [](id = 1 + NumAccepted(wire))
    /\ [][/\ id' >= id
          /\ FailedStep => id' = id /\ _version' = _version]_vars

\* a call failed on its post after an earlier post had been accepted
C10_Witness ==
    /\ last.exc \in {"requests.ConnectionError", "requests.HTTPError"}
    /\ Len(last.sent) = 1
    /\ id = 2
    /\ last.before.id = 2

====
